---------------------------- MODULE Spec2Model ----------------------------
(***************************************************************************)
(* Model of StringUtils (src/mod.ts): the normalization pipeline           *)
(* (normalize, stripCliColors, validate) and the table renderer (table).   *)
(*                                                                         *)
(* A JavaScript string is a sequence of UTF-16 code units, written here as *)
(* a sequence of natural numbers (every character used is in the BMP, so   *)
(* one code unit is one code point).  A JavaScript value is a record with  *)
(* a tag t: "string" (field s), "number" (field n), "array" (field a),     *)
(* "object", "undefined" or "null".  A JavaScript object literal used as a *)
(* table row is the sequence of its own entries [k, v] in insertion order. *)
(*                                                                         *)
(* Every function is pure, so a behaviour is one call: Init draws the      *)
(* arguments from bounded sets and one action applies the function.        *)
(***************************************************************************)
EXTENDS Integers, Sequences, FiniteSets

VARIABLES
    pc,            \* "call" before the function is applied, "done" after
    op,            \* the function that was applied
    arg,           \* the value argument (str of normalize/stripCliColors/validate)
    strict,        \* normalize's strict flag
    stripCli,      \* normalize's stripCliColors flag
    strArr,        \* table's argument: a sequence of rows
    out,           \* the returned string
    ok,            \* the returned boolean (validate)
    thrown,        \* TRUE when the call ended with an exception instead of a value
    columnWidths,  \* table's local columnWidths
    length,        \* truncate's length argument
    flag,          \* the boolean the caller passes after the declared arguments
                   \* (truncate, isPalindrome), or softlyNormalizeArray's lowercase
    list,          \* the array argument of the normalizeArray functions
    outList,       \* the returned array
    calls,         \* the reveal calls in progress: their str, position and state
    stdout         \* what was written to the standard output, with its writer

\* the variables of the calls added to the first ones
rest == <<length, flag, list, outList, calls, stdout>>

vars == <<pc, op, arg, strict, stripCli, strArr, out, ok, thrown, columnWidths,
          length, flag, list, outList, calls, stdout>>

---------------------------------------------------------------------------
(* Bounds of the model *)

\* longest text given to normalize, validate, isPalindrome and truncate
MaxLen == 4
\* longest text given to stripCliColors
MaxEscLen == 5
\* most rows of a table
MaxRows == 2
\* most entries of an array given to the normalizeArray functions
MaxArr == 3
\* longest text given to reveal
MaxRevealLen == 2

---------------------------------------------------------------------------
(* Characters *)

\* \s of a JavaScript regular expression, which is also what trim() removes
WhiteSpace ==
    {9, 10, 11, 12, 13, 32, 160, 5760, 8232, 8233, 8239, 8287, 12288, 65279}
        \cup (8192..8202)

IsWhiteSpace(c) == c \in WhiteSpace

\* [U+0300-U+036F]
IsCombiningMark(c) == c \in 768..879

\* \w of a regular expression without the u flag: [A-Za-z0-9_]
IsWordChar(c) == c \in (48..57) \cup (65..90) \cup (97..122) \cup {95}

\* String.prototype.normalize("NFD") on one character.  The table holds the
\* characters with a canonical decomposition that the inputs and toLowerCase
\* can produce, U+00C9 and U+00E9, and U+00C1 and U+00E1 of the repository's
\* test; every other character used here (ASCII, U+00F8, U+0301) has none.
nfdChar(c) ==
    CASE c = 193 -> <<65, 769>>
      [] c = 201 -> <<69, 769>>
      [] c = 225 -> <<97, 769>>
      [] c = 233 -> <<101, 769>>
      [] OTHER   -> <<c>>

RECURSIVE NFD(_)
NFD(s) == IF s = <<>> THEN <<>> ELSE nfdChar(Head(s)) \o NFD(Tail(s))

\* .replace(/[U+0300-U+036F]/g, "")
removeAccentuation(s) == SelectSeq(s, LAMBDA c : ~IsCombiningMark(c))

\* .replace(/\s+/g, " "): every maximal run of whitespace becomes one U+0020
RECURSIVE collapseFrom(_, _)
collapseFrom(s, i) ==
    IF i > Len(s) THEN <<>>
    ELSE IF IsWhiteSpace(s[i])
         THEN (IF i > 1 /\ IsWhiteSpace(s[i - 1]) THEN <<>> ELSE <<32>>)
                 \o collapseFrom(s, i + 1)
         ELSE <<s[i]>> \o collapseFrom(s, i + 1)

collapseWhitespaceEachChar(s) ==
    [i \in 1..Len(s) |-> IF IsWhiteSpace(s[i]) THEN 32 ELSE s[i]]

collapseWhitespace(s) == collapseFrom(s, 1)

SetMin(S) == CHOOSE x \in S : \A y \in S : x <= y
SetMax(S) == CHOOSE x \in S : \A y \in S : y <= x

\* String.prototype.trim()
trim(s) ==
    LET keep == {i \in 1..Len(s) : ~IsWhiteSpace(s[i])}
    IN  IF keep = {} THEN <<>> ELSE SubSeq(s, SetMin(keep), SetMax(keep))

\* String.prototype.toLowerCase() on one character: ASCII and Latin-1
lowerChar(c) ==
    IF c \in (65..90) \cup ((192..222) \ {215}) THEN c + 32 ELSE c

toLowerCase(s) == [i \in 1..Len(s) |-> lowerChar(s[i])]

\* .replace(/[\s\W_]/g, "")
removeNonWord(s) ==
    SelectSeq(s, LAMBDA c : ~(IsWhiteSpace(c) \/ ~IsWordChar(c) \/ c = 95))

---------------------------------------------------------------------------
(* stripCliColors: .replace(/\x1b\[[0-9;?]*[ -\/]*[@-~]/g, "") *)

\* [0-9;?]
RegexParam == (48..57) \cup {59, 63}
\* [ -/]
RegexIntermediate == 32..47
\* [@-~]
RegexFinal == 64..126

\* the first index at or after i whose character is not in the class
skipWhile(s, i, class) ==
    LET stop == {j \in i..Len(s) : s[j] \notin class}
    IN  IF stop = {} THEN Len(s) + 1 ELSE SetMin(stop)

\* The index of the last character of the regex's match starting at i, or 0
\* when there is none.  The three classes are pairwise disjoint, so the greedy
\* match is the only candidate: backtracking cannot find another.
matchEnd(s, i) ==
    IF i + 1 <= Len(s) /\ s[i] = 27 /\ s[i + 1] = 91
    THEN LET j == skipWhile(s, i + 2, RegexParam)
             k == skipWhile(s, j, RegexIntermediate)
         IN  IF k <= Len(s) /\ s[k] \in RegexFinal THEN k ELSE 0
    ELSE 0

\* the g flag: matches are found left to right in the original string, each
\* search resuming after the previous match
RECURSIVE stripFrom(_, _)
stripFrom(s, i) ==
    IF i > Len(s) THEN <<>>
    ELSE LET e == matchEnd(s, i)
         IN  IF e # 0 THEN stripFrom(s, e + 1)
             ELSE <<s[i]>> \o stripFrom(s, i + 1)

stripCliColors(s) == stripFrom(s, 1)

---------------------------------------------------------------------------
(* normalize *)

\* the accents are removed before the decomposition that separates them
normalizeAccentsFirst(s, st, sc) ==
    LET n == toLowerCase(trim(collapseWhitespace(NFD(removeAccentuation(s)))))
        r == IF st THEN removeNonWord(n) ELSE n
    IN  IF sc THEN stripCliColors(r) ELSE r

\* With strict falsy the last call is .replace("", ""), which replaces the
\* empty match at index 0 by the empty string: the string is unchanged.
normalize(s, st, sc) ==
    LET normalizedStr ==
            LET n == toLowerCase(trim(collapseWhitespace(removeAccentuation(NFD(s)))))
            IN  IF st THEN removeNonWord(n) ELSE n
    IN  IF sc THEN stripCliColors(normalizedStr) ELSE normalizedStr

---------------------------------------------------------------------------
(* reverseString, removeWhitespace, truncate, isPalindrome *)

\* str.split("").reverse().join("")
reverseString(s) == [i \in 1..Len(s) |-> s[Len(s) + 1 - i]]

\* str.replace(/\s+/g, "")
removeWhitespace(s) == SelectSeq(s, LAMBDA c : ~IsWhiteSpace(c))

\* str.substring(0, length) + "..." (U+002E three times)
truncate(s, n) ==
    IF Len(s) <= n THEN s ELSE SubSeq(s, 1, n) \o <<46, 46, 46>>

isPalindrome(s) ==
    LET normalized == normalize(s, TRUE, FALSE)
    IN  normalized = reverseString(normalized)

---------------------------------------------------------------------------
(* JavaScript values *)

Str(s) == [t |-> "string", s |-> s]
Num(n) == [t |-> "number", n |-> n]
Arr(a) == [t |-> "array", a |-> a]
Obj == [t |-> "object"]
Undefined == [t |-> "undefined"]
Null == [t |-> "null"]

\* validate with the blank test of an earlier version: trim() instead of normalize()
validateTrimOnly(v) ==
    ~(v.t = "undefined" \/ v.t = "null" \/ v.t # "string" \/ trim(v.s) = <<>>)

validate(v) ==
    IF v.t = "undefined" \/ v.t = "null" \/ v.t # "string"
       \/ normalize(v.s, FALSE, FALSE) = <<>>
    THEN FALSE
    ELSE TRUE

---------------------------------------------------------------------------
(* normalizeArray, softlyNormalizeArray, strictlyNormalizeArray *)

\* a filter that keeps every non-empty string, blank ones included
validatedNonEmpty(a) ==
    SelectSeq(a, LAMBDA v : v.t = "string" /\ v.s # <<>>)

\* strArr.filter((str) => this.validate(str))
validated(a) == SelectSeq(a, validate)

normalizeArray(a) ==
    LET v == validated(a)
    IN  [i \in 1..Len(v) |-> normalize(v[i].s, FALSE, FALSE)]

softlyNormalizeArray(a, lowercase) ==
    LET v == validated(a)
    IN  [i \in 1..Len(v) |->
            IF lowercase = TRUE THEN toLowerCase(trim(v[i].s)) ELSE trim(v[i].s)]

strictlyNormalizeArray(a) ==
    LET v == validated(a)
    IN  [i \in 1..Len(v) |-> normalize(v[i].s, TRUE, TRUE)]

---------------------------------------------------------------------------
(* reveal *)

\* the two concurrent calls
Callers == {1, 2}

\* a loop that ends every round with the line break
roundWritesLineEachTime(str, i) == <<str[i], 10>>

\* What one round of reveal's loop writes once its timer has fired: the i-th
\* character through Deno.stdout.write and, when the loop ends with it, the
\* line break of console.log() (U+000A). Nothing is awaited in between.
roundWrites(str, i) ==
    IF i = Len(str) THEN <<str[i], 10>> ELSE <<str[i]>>

\* the writes w issued by call p, appended to the standard output
issue(p, w) == stdout \o [k \in 1..Len(w) |-> [by |-> p, c |-> w[k]]]

---------------------------------------------------------------------------
(* String literals of table, as code units *)

\* "No data to display."
NoDataText ==
    <<78, 111, 32, 100, 97, 116, 97, 32, 116, 111, 32, 100, 105, 115,
      112, 108, 97, 121, 46>>

\* "Unable to represent data. Row "
ErrorMessageStart ==
    <<85, 110, 97, 98, 108, 101, 32, 116, 111, 32, 114, 101, 112, 114,
      101, 115, 101, 110, 116, 32, 100, 97, 116, 97, 46, 32, 82, 111,
      119, 32>>

\* " is not consistent with the rest of the table."
ErrorMessageEnd ==
    <<32, 105, 115, 32, 110, 111, 116, 32, 99, 111, 110, 115, 105, 115,
      116, 101, 110, 116, 32, 119, 105, 116, 104, 32, 116, 104, 101, 32,
      114, 101, 115, 116, 32, 111, 102, 32, 116, 104, 101, 32, 116, 97,
      98, 108, 101, 46>>

\* String(e) of an Error e is e.name + ": " + e.message, and e.name is "Error"
ErrorPrefix ==
    <<69, 114, 114, 111, 114, 58, 32>>

\* Object.prototype.toString() of a plain object: "[object Object]"
ObjectText ==
    <<91, 111, 98, 106, 101, 99, 116, 32, 79, 98, 106, 101, 99, 116, 93>>

\* chars: y is " | " with U+2502, x is U+2500, and the seven junctions
chars ==
    [y |-> <<32, 9474, 32>>, x |-> 9472, full |-> 9532, xDown |-> 9516,
     xUp |-> 9524, yLeft |-> 9500, yRight |-> 9508, xlUp |-> 9484,
     xlDown |-> 9492, xrUp |-> 9488, xrDown |-> 9496]

---------------------------------------------------------------------------
(* JavaScript conversions used by table *)

\* Number.prototype.toString() of a natural number
RECURSIVE digits(_)
digits(n) == IF n < 10 THEN <<48 + n>> ELSE digits(n \div 10) \o <<48 + (n % 10)>>

\* Array.prototype.join(sep) on strings already converted
RECURSIVE join(_, _)
join(parts, sep) ==
    IF parts = <<>> THEN <<>>
    ELSE IF Len(parts) = 1 THEN parts[1]
    ELSE parts[1] \o sep \o join(Tail(parts), sep)

\* value.toString().  An array is its elements joined by ",", where an
\* undefined or null element gives the empty string.
RECURSIVE toString(_)
toString(v) ==
    CASE v.t = "string" -> v.s
      [] v.t = "number" -> digits(v.n)
      [] v.t = "array"  ->
            join([i \in 1..Len(v.a) |->
                     IF v.a[i].t \in {"undefined", "null"} THEN <<>>
                     ELSE toString(v.a[i])],
                 <<44>>)
      [] v.t = "object" -> ObjectText

\* the truthiness that !value tests
truthy(v) ==
    CASE v.t = "undefined" -> FALSE
      [] v.t = "null"      -> FALSE
      [] v.t = "string"    -> v.s # <<>>
      [] v.t = "number"    -> v.n # 0
      [] OTHER             -> TRUE

\* row[header]: the value of the entry with that key, undefined without one
property(row, header) ==
    IF \E i \in 1..Len(row) : row[i].k = header
    THEN row[CHOOSE i \in 1..Len(row) : row[i].k = header].v
    ELSE Undefined

\* Object.keys(row)
keys(row) == [i \in 1..Len(row) |-> row[i].k]

\* `${Object.entries(row)}`: the array of [key, value] arrays, converted
entriesText(row) ==
    toString(Arr([i \in 1..Len(row) |-> Arr(<<Str(row[i].k), row[i].v>>)]))

\* String.prototype.padEnd(n) with spaces
padEnd(s, n) == IF n <= Len(s) THEN s ELSE s \o [i \in 1..(n - Len(s)) |-> 32]

\* String.prototype.repeat
repeat(c, n) == [i \in 1..n |-> c]

\* Math.max of a non-empty set of numbers
MathMax(S) == SetMax(S)

---------------------------------------------------------------------------
(* table *)

\* row[header]?.toString() ?? ""
cellText(row, header) ==
    LET v == property(row, header)
    IN  IF v.t \in {"undefined", "null"} THEN <<>> ELSE toString(v)

\* the one extra column is added after the maximum is taken
computeColumnWidthsPlusOneOutside(rows, headers) ==
    [h \in 1..Len(headers) |->
        MathMax({Len(headers[h])}
                  \cup {Len(normalize(cellText(rows[r], headers[h]), FALSE, TRUE))
                           : r \in 1..Len(rows)}) + 1]

computeColumnWidths(rows, headers) ==
    [h \in 1..Len(headers) |->
        MathMax({Len(headers[h])}
                  \cup {Len(normalize(cellText(rows[r], headers[h]), FALSE, TRUE)) + 1
                           : r \in 1..Len(rows)})]

fmtCell(value, index, widths) ==
    LET diff == Len(trim(value)) - Len(normalize(value, FALSE, TRUE))
    IN  padEnd(trim(value), widths[index] + diff)

createSeparator(left, middle, right, widths) ==
    <<left>> \o join([w \in 1..Len(widths) |-> repeat(chars.x, widths[w] + 2)],
                     <<middle>>) \o <<right>>

\* only the falsy test: the validate test is left out
cellRejectedFalsyOnly(row, header) ==
    ~truthy(property(row, header))

\* composite values are refused
cellRejectedComposite(row, header) ==
    \/ ~truthy(property(row, header))
    \/ property(row, header).t \in {"array", "object"}
    \/ ~validate(Str(cellText(row, header)))

\* !row[header] || !this.validate(row[header]?.toString() ?? "")
cellRejected(row, header) ==
    \/ ~truthy(property(row, header))
    \/ ~validate(Str(cellText(row, header)))

\* the cells of a row are taken in the row's own key order, not the headers'
dataRowsOwnKeyOrder(rows, headers, widths) ==
    LET bad == {r \in 1..Len(rows) :
                   \E h \in 1..Len(headers) : cellRejected(rows[r], headers[h])}
    IN  IF bad # {}
        THEN [threw |-> TRUE,
              message |-> ErrorMessageStart \o entriesText(rows[SetMin(bad)])
                             \o ErrorMessageEnd]
        ELSE [threw |-> FALSE,
              rows |-> [r \in 1..Len(rows) |->
                          join([h \in 1..Len(headers) |->
                                   fmtCell(toString(rows[r][h].v), h, widths)],
                               chars.y)]]

\* The map over the rows inside try: it throws at the first row, and in it
\* at the first header, whose cell is rejected.
dataRows(rows, headers, widths) ==
    LET bad == {r \in 1..Len(rows) :
                   \E h \in 1..Len(headers) : cellRejected(rows[r], headers[h])}
    IN  IF bad # {}
        THEN [threw |-> TRUE,
              message |-> ErrorMessageStart \o entriesText(rows[SetMin(bad)])
                             \o ErrorMessageEnd]
        ELSE [threw |-> FALSE,
              rows |-> [r \in 1..Len(rows) |->
                          join([h \in 1..Len(headers) |->
                                   fmtCell(toString(property(rows[r], headers[h])),
                                           h, widths)],
                               chars.y)]]

\* the table of the rows that were formatted, or String(e) of what was thrown
\* and caught
assemble(headers, widths, data) ==
    LET separators ==
            [middle |-> createSeparator(chars.yLeft, chars.full, chars.yRight, widths),
             top |-> createSeparator(chars.xlUp, chars.xDown, chars.xrUp, widths),
             bottom |-> createSeparator(chars.xlDown, chars.xUp, chars.xrDown, widths)]
        headerRow ==
            <<9474, 32>>
               \o join([h \in 1..Len(headers) |-> fmtCell(headers[h], h, widths)],
                       chars.y)
               \o <<32, 9474>>
    IN  IF data.threw
        THEN [thrown |-> FALSE,
              value |-> ErrorPrefix \o data.message,
              columnWidths |-> widths]
        ELSE [thrown |-> FALSE,
              value |->
                  join(<<separators.top, headerRow, separators.middle>>
                          \o [r \in 1..Len(data.rows) |->
                                 <<9474, 32>> \o data.rows[r] \o <<32, 9474>>]
                          \o <<separators.bottom>>,
                       <<10>>),
              columnWidths |-> widths]

\* the exception of the data rows is not caught
assembleWithoutCatch(headers, widths, data) ==
    IF data.threw
    THEN [thrown |-> TRUE, value |-> <<>>, columnWidths |-> widths]
    ELSE assemble(headers, widths, data)

\* try { ... } catch (e) { return String(e) } around the data rows
tryDataRows(headers, widths, data) == assemble(headers, widths, data)

\* The value is the returned string; thrown tells whether the call ended with
\* an exception instead.  Lines are joined by "\n" (U+000A).  columnWidths
\* and the data rows are each computed once, as the code's constants are.
table(rows) ==
    IF Len(rows) = 0
    THEN [thrown |-> FALSE, value |-> NoDataText, columnWidths |-> <<>>]
    ELSE LET headers == keys(rows[1])
         IN  CHOOSE result \in
                 {tryDataRows(headers, widths, data) :
                     <<widths, data>> \in
                         {<<w, dataRows(rows, headers, w)>> :
                             w \in {computeColumnWidths(rows, headers)}}} : TRUE

---------------------------------------------------------------------------
(* Inputs *)

Texts(alphabet, n) == UNION {[1..k -> alphabet] : k \in 0..n}

\* a, A, U+00C9 (E acute), U+0301 (combining acute), space, tab, _, -, 1,
\* U+00F8 (o slash)
NormChars == {97, 65, 201, 769, 32, 9, 95, 45, 49, 248}

\* ESC, [, 1, :, space, m
EscChars == {27, 91, 49, 58, 32, 109}

\* a, b, space
TruncateChars == {97, 98, 32}

\* ESC, "[", "m", space, "a"
ColorChars == {27, 91, 109, 32, 97}

\* a, b
RevealChars == {97, 98}

NormArgs ==
    {Str(s) : s \in Texts(NormChars, MaxLen)} \cup {Undefined, Null, Num(7)}

\* the column names "K" and "Key"
KeyK == <<75>>
KeyKey == <<75, 101, 121>>

\* The values a cell of column K may hold: "x", 0, " ", ["a", "b"], [],
\* "\x1b[mx", "a  b" and a nested plain object
ValuesK ==
    {Str(<<120>>), Num(0), Str(<<32>>),
     Arr(<<Str(<<97>>), Str(<<98>>)>>), Arr(<<>>),
     Str(<<27, 91, 109, 120>>), Str(<<97, 32, 32, 98>>), Obj}

\* The values a cell of column Key may hold: 25 and ""
ValuesKey == {Num(25), Str(<<>>)}

\* the rows: no column, column K alone, and both columns in either order
Rows ==
    {<<>>}
      \cup {<<[k |-> KeyK, v |-> a]>> : a \in ValuesK}
      \cup {<<[k |-> KeyK, v |-> a], [k |-> KeyKey, v |-> b]>> :
               a \in ValuesK, b \in ValuesKey}
      \cup {<<[k |-> KeyKey, v |-> b], [k |-> KeyK, v |-> a]>> :
               a \in ValuesK, b \in ValuesKey}

Tables == UNION {[1..n -> Rows] : n \in 0..MaxRows}

\* UnknownString entries: undefined, null, "", " \t", " E'  A " (E acute),
\* "_", a lone combining acute accent, "1_a", "\x1b[ma"
Entries ==
    {Undefined, Null, Str(<<>>), Str(<<32, 9>>),
     Str(<<32, 201, 32, 32, 65, 32>>), Str(<<95>>), Str(<<769>>),
     Str(<<49, 95, 97>>), Str(<<27, 91, 109, 97>>)}

Lists == UNION {[1..n -> Entries] : n \in 0..MaxArr}

---------------------------------------------------------------------------
(* The calls *)

Idle ==
    /\ pc = "call" /\ op = "none"
    /\ strict = FALSE /\ stripCli = FALSE
    /\ out = <<>> /\ ok = FALSE /\ thrown = FALSE /\ columnWidths = <<>>
    /\ flag = FALSE /\ outList = <<>> /\ stdout = <<>>

Init ==
    /\ Idle
    /\ list = <<>> /\ calls = <<>>
    /\ length = 0
    /\ arg \in NormArgs
    /\ strArr = <<>>

Normalize ==
    /\ pc = "call"
    /\ arg.t = "string"
    /\ \E st \in BOOLEAN, sc \in BOOLEAN :
          /\ strict' = st
          /\ stripCli' = sc
          /\ out' = normalize(arg.s, st, sc)
    /\ pc' = "done"
    /\ op' = "normalize"
    /\ UNCHANGED <<arg, strArr, ok, thrown, columnWidths, rest>>

Validate ==
    /\ pc = "call"
    /\ ok' = validate(arg)
    /\ pc' = "done"
    /\ op' = "validate"
    /\ UNCHANGED <<arg, strict, stripCli, strArr, out, thrown, columnWidths, rest>>


\* The caller may pass a second argument; isPalindrome declares one parameter
\* and JavaScript drops the others.
IsPalindrome ==
    /\ pc = "call"
    /\ arg.t = "string"
    /\ \E f \in BOOLEAN : flag' = f
    /\ ok' = isPalindrome(arg.s)
    /\ pc' = "done"
    /\ op' = "isPalindrome"
    /\ UNCHANGED <<arg, strict, stripCli, strArr, out, thrown, columnWidths,
                   length, list, outList, calls, stdout>>

Next == Normalize \/ Validate \/ IsPalindrome

Spec == Init /\ [][Next]_vars

InitStrip ==
    /\ Idle
    /\ list = <<>> /\ calls = <<>>
    /\ length = 0
    /\ arg \in {Str(s) : s \in Texts(EscChars, MaxEscLen)}
    /\ strArr = <<>>

StripCliColors ==
    /\ pc = "call"
    /\ arg.t = "string"
    /\ out' = stripCliColors(arg.s)
    /\ pc' = "done"
    /\ op' = "stripCliColors"
    /\ UNCHANGED <<arg, strict, stripCli, strArr, ok, thrown, columnWidths, rest>>

NextStrip == StripCliColors

SpecStrip == InitStrip /\ [][NextStrip]_vars

InitTable ==
    /\ Idle
    /\ list = <<>> /\ calls = <<>>
    /\ length = 0
    /\ arg = Undefined
    /\ strArr \in Tables

Table ==
    /\ pc = "call"
    /\ \E r \in {table(strArr)} :
           /\ out' = r.value
           /\ thrown' = r.thrown
           /\ columnWidths' = r.columnWidths
    /\ pc' = "done"
    /\ op' = "table"
    /\ UNCHANGED <<arg, strict, stripCli, strArr, ok, rest>>

NextTable == Table

SpecTable == InitTable /\ [][NextTable]_vars

InitTruncate ==
    /\ Idle
    /\ list = <<>> /\ calls = <<>>
    /\ arg \in {Str(s) : s \in Texts(TruncateChars, MaxLen)}
    /\ length \in 0..MaxLen
    /\ strArr = <<>>

\* The caller may pass a third argument; truncate declares two parameters and
\* JavaScript drops the others.
Truncate ==
    /\ pc = "call"
    /\ arg.t = "string"
    /\ \E f \in BOOLEAN : flag' = f
    /\ out' = truncate(arg.s, length)
    /\ pc' = "done"
    /\ op' = "truncate"
    /\ UNCHANGED <<arg, strict, stripCli, strArr, ok, thrown, columnWidths,
                   length, list, outList, calls, stdout>>

NextTruncate == Truncate

SpecTruncate == InitTruncate /\ [][NextTruncate]_vars

InitArray ==
    /\ Idle
    /\ calls = <<>>
    /\ arg = Undefined
    /\ strArr = <<>>
    /\ length = 0
    /\ list \in Lists

NormalizeArray ==
    /\ pc = "call"
    /\ outList' = normalizeArray(list)
    /\ pc' = "done"
    /\ op' = "normalizeArray"
    /\ UNCHANGED <<arg, strict, stripCli, strArr, out, ok, thrown, columnWidths,
                   length, flag, list, calls, stdout>>

SoftlyNormalizeArray ==
    /\ pc = "call"
    /\ \E lowercase \in BOOLEAN :
          /\ flag' = lowercase
          /\ outList' = softlyNormalizeArray(list, lowercase)
    /\ pc' = "done"
    /\ op' = "softlyNormalizeArray"
    /\ UNCHANGED <<arg, strict, stripCli, strArr, out, ok, thrown, columnWidths,
                   length, list, calls, stdout>>

StrictlyNormalizeArray ==
    /\ pc = "call"
    /\ outList' = strictlyNormalizeArray(list)
    /\ pc' = "done"
    /\ op' = "strictlyNormalizeArray"
    /\ UNCHANGED <<arg, strict, stripCli, strArr, out, ok, thrown, columnWidths,
                   length, flag, list, calls, stdout>>

NextArray == NormalizeArray \/ SoftlyNormalizeArray \/ StrictlyNormalizeArray

SpecArray == InitArray /\ [][NextArray]_vars

\* normalize called on texts that hold escape sequences
InitColor ==
    /\ Idle
    /\ list = <<>> /\ calls = <<>>
    /\ length = 0
    /\ arg \in {Str(s) : s \in Texts(ColorChars, MaxEscLen)}
    /\ strArr = <<>>

NextColor == Normalize

SpecColor == InitColor /\ [][NextColor]_vars

\* Two calls of reveal that have not started: i counts the rounds of the
\* loop that have run; st is "idle" before the call, "waiting" while the
\* call is suspended on its timer, "done" after console.log().
InitReveal ==
    /\ Idle
    /\ arg = Undefined
    /\ strArr = <<>>
    /\ length = 0
    /\ list = <<>>
    /\ calls \in [Callers -> {[str |-> s, i |-> 0, st |-> "idle"] :
                                 s \in Texts(RevealChars, MaxRevealLen)}]

\* the whole program is done when both calls are
pcAfter(c) == IF \A p \in Callers : c[p].st = "done" THEN "done" ELSE "call"

\* The call itself, up to its first await: an empty str skips the loop and
\* logs the line break at once; otherwise the first timer is set.
Reveal(p) ==
    /\ calls[p].st = "idle"
    /\ IF calls[p].str = <<>>
       THEN /\ calls' = [calls EXCEPT ![p].st = "done"]
            /\ stdout' = issue(p, <<10>>)
       ELSE /\ calls' = [calls EXCEPT ![p].st = "waiting"]
            /\ stdout' = stdout
    /\ pc' = pcAfter(calls')
    /\ op' = "reveal"
    /\ UNCHANGED <<arg, strict, stripCli, strArr, out, ok, thrown, columnWidths,
                   length, flag, list, outList>>

\* The timer of call p fires (delay is any number, so either call's timer
\* may be the next): the call resumes, writes, and suspends again or ends.
Resume(p) ==
    /\ calls[p].st = "waiting"
    /\ LET i == calls[p].i + 1
       IN  /\ stdout' = issue(p, roundWrites(calls[p].str, i))
           /\ calls' = [calls EXCEPT
                          ![p].i = i,
                          ![p].st = IF i = Len(calls[p].str)
                                    THEN "done" ELSE "waiting"]
    /\ pc' = pcAfter(calls')
    /\ op' = "reveal"
    /\ UNCHANGED <<arg, strict, stripCli, strArr, out, ok, thrown, columnWidths,
                   length, flag, list, outList>>

NextReveal == \E p \in Callers : Reveal(p) \/ Resume(p)

SpecReveal == InitReveal /\ [][NextReveal]_vars

---------------------------------------------------------------------------
(* Properties of normalize, validate and stripCliColors *)

DefaultNormalizeDone ==
    pc = "done" /\ op = "normalize" /\ ~strict /\ ~stripCli

\* Unicode letters and digits among the characters of the model: ASCII and Latin-1
IsLetter(c) == c \in (65..90) \cup (97..122) \cup ((192..255) \ {215, 247})
IsDigit(c) == c \in 48..57
IsUpperCase(c) == c \in (65..90) \cup ((192..222) \ {215})

C2_PipelineShape ==
    DefaultNormalizeDone =>
        /\ \A i \in 1..Len(out) : ~IsCombiningMark(out[i])
        /\ out # <<>> => ~IsWhiteSpace(out[1]) /\ ~IsWhiteSpace(out[Len(out)])
        /\ \A i \in 1..(Len(out) - 1) :
              ~(IsWhiteSpace(out[i]) /\ IsWhiteSpace(out[i + 1]))
        /\ \A i \in 1..Len(out) : IsWhiteSpace(out[i]) => out[i] = 32
        /\ \A i \in 1..Len(out) : ~IsUpperCase(out[i])
        /\ SelectSeq(out, LAMBDA c : c # 32)
             = toLowerCase(SelectSeq(NFD(arg.s),
                   LAMBDA c : ~IsCombiningMark(c) /\ ~IsWhiteSpace(c)))

C2_Witness ==
    /\ DefaultNormalizeDone
    /\ arg.s = <<65, 9, 32, 201>>
    /\ out = <<97, 32, 101>>

\* C3 (as claimed): normalize(s, strict = true) is default normalize(s) with
\* exactly the characters removed that are not letters or digits, so every
\* letter, non-ASCII letters included, is kept.
C3_StrictKeepsLettersAndDigits ==
    (pc = "done" /\ op = "normalize" /\ strict /\ ~stripCli) =>
        out = SelectSeq(normalize(arg.s, FALSE, FALSE),
                        LAMBDA c : IsLetter(c) \/ IsDigit(c))

\* The escape-sequence grammar: ESC [ (0x30-0x3F)* (0x20-0x2F)* (0x40-0x7E)
ParameterBytes == 48..63
IntermediateBytes == 32..47
FinalBytes == 64..126

GrammarMatchEnd(s, i) ==
    IF i + 1 <= Len(s) /\ s[i] = 27 /\ s[i + 1] = 91
    THEN LET j == skipWhile(s, i + 2, ParameterBytes)
             k == skipWhile(s, j, IntermediateBytes)
         IN  IF k <= Len(s) /\ s[k] \in FinalBytes THEN k ELSE 0
    ELSE 0

HasEscapeSequence(s) == \E i \in 1..Len(s) : GrammarMatchEnd(s, i) # 0

RECURSIVE GrammarStripFrom(_, _)
GrammarStripFrom(s, i) ==
    IF i > Len(s) THEN <<>>
    ELSE LET e == GrammarMatchEnd(s, i)
         IN  IF e # 0 THEN GrammarStripFrom(s, e + 1)
             ELSE <<s[i]>> \o GrammarStripFrom(s, i + 1)

\* C4 (as claimed): stripCliColors(s) is s with exactly the escape sequences
\* of the grammar removed: no substring of the result matches the grammar,
\* and every character outside such a substring is kept, in order.
C4_StripsEverySequence ==
    (pc = "done" /\ op = "stripCliColors") =>
        /\ ~HasEscapeSequence(out)
        /\ out = GrammarStripFrom(arg.s, 1)

\* C5: validate(v) is true exactly when v is a string and normalize(v) is
\* not empty; it is false for a missing value, for "" and for a string of
\* whitespace only, and true for a one-letter string.
C5_Validate ==
    (pc = "done" /\ op = "validate") =>
        /\ ok <=> (arg.t = "string" /\ normalize(arg.s, FALSE, FALSE) # <<>>)
        /\ arg.t \in {"undefined", "null"} => ~ok
        /\ arg = Str(<<>>) => ~ok
        /\ (arg.t = "string" /\ \A i \in 1..Len(arg.s) : IsWhiteSpace(arg.s[i])) => ~ok
        /\ arg = Str(<<97>>) => ok

\* validate("\t ") is false
C5_Witness ==
    /\ pc = "done" /\ op = "validate"
    /\ arg = Str(<<9, 32>>)
    /\ ~ok

---------------------------------------------------------------------------
(* Properties of table *)

TableDone == pc = "done" /\ op = "table"

Headers == keys(strArr[1])

KeySet(row) == {row[i].k : i \in 1..Len(row)}

\* the text of a value inside the flattened entries of a row
ValueText(v) == IF v.t \in {"undefined", "null"} THEN <<>> ELSE toString(v)

\* k1,v1,k2,v2,... : the row's own entries in the row's own key order
FlatEntries(row) ==
    join([i \in 1..(2 * Len(row)) |->
             IF i % 2 = 1 THEN row[(i + 1) \div 2].k
             ELSE ValueText(row[i \div 2].v)],
         <<44>>)

IsPrefixOf(p, s) == Len(p) <= Len(s) /\ SubSeq(s, 1, Len(p)) = p
IsSuffixOf(p, s) == Len(p) <= Len(s) /\ SubSeq(s, Len(s) - Len(p) + 1, Len(s)) = p
Contains(s, part) ==
    \E i \in 1..(Len(s) - Len(part) + 1) : SubSeq(s, i, i + Len(part) - 1) = part

\* "Error: Unable to represent data. Row ... is not consistent with the rest
\* of the table."
IsConsistencyError(s) ==
    /\ IsPrefixOf(ErrorPrefix \o ErrorMessageStart, s)
    /\ IsSuffixOf(ErrorMessageEnd, s)

ConsistencyError(row) ==
    ErrorPrefix \o ErrorMessageStart \o FlatEntries(row) \o ErrorMessageEnd

\* a rendered table: from the top left corner to the bottom right corner
IsBoxTable(s) ==
    /\ s # <<>>
    /\ s[1] = 9484
    /\ s[Len(s)] = 9496

\* the visual length of a cell as table measures it: the length of the cell's
\* text normalized with its escape sequences removed
MeasuredLength(row, header) == Len(normalize(cellText(row, header), FALSE, TRUE))

\* the cell of the row under the header is absent, falsy, or fails validate
CellAbsent(row, header) == header \notin KeySet(row)
CellFalsy(row, header) ==
    /\ ~CellAbsent(row, header)
    /\ property(row, header) \in {Str(<<>>), Num(0), Undefined, Null}
CellFailsValidate(row, header) ==
    /\ ~CellAbsent(row, header)
    /\ ~validate(Str(ValueText(property(row, header))))
Offending(row) ==
    \E h \in 1..Len(Headers) :
        \/ CellAbsent(row, Headers[h])
        \/ CellFalsy(row, Headers[h])
        \/ CellFailsValidate(row, Headers[h])

IsComposite(v) == v.t \in {"array", "object"}

\* C6 (as claimed): the width of every column of a rendered table is
\* max(header length, maximum visual cell length over the rows) + 1.
C6_WidthIsMaxPlusOne ==
    (TableDone /\ strArr # <<>> /\ IsBoxTable(out)) =>
        \A h \in 1..Len(Headers) :
            columnWidths[h] =
                SetMax({Len(Headers[h])}
                         \cup {MeasuredLength(strArr[r], Headers[h])
                                  : r \in 1..Len(strArr)}) + 1

\* C6 (amended): the width of every column is the maximum of the header's
\* length and of every cell's measured length plus one: it is at least the
\* header's length, at least every measured cell length plus one, and equal
\* to one of these.  The one extra column is added to the cells only.
C6_WidthIsMaxOfHeaderAndCellPlusOne ==
    (TableDone /\ strArr # <<>>) =>
        /\ Len(columnWidths) = Len(Headers)
        /\ \A h \in 1..Len(Headers) :
              /\ columnWidths[h] >= Len(Headers[h])
              /\ \A r \in 1..Len(strArr) :
                    columnWidths[h] >= MeasuredLength(strArr[r], Headers[h]) + 1
              /\ \/ columnWidths[h] = Len(Headers[h])
                 \/ \E r \in 1..Len(strArr) :
                       columnWidths[h] = MeasuredLength(strArr[r], Headers[h]) + 1

\* table([{K: "x", Key: 25}]): K is as wide as "x" plus one, Key as wide as
\* its header
C6_Witness ==
    /\ TableDone
    /\ strArr = <<
          <<[k |-> KeyK, v |-> Str(<<120>>)], [k |-> KeyKey, v |-> Num(25)]>> >>
    /\ columnWidths = <<2, 3>>

\* C7 (as claimed): table returns the consistency error whenever a row's key
\* set differs from the first row's (a key missing or an extra key), and rows
\* with the first row's key set in any order, whose cells are all valid,
\* give no error.
C7_KeySetMismatchIsError ==
    (TableDone /\ strArr # <<>>) =>
        /\ (\E r \in 1..Len(strArr) : KeySet(strArr[r]) # KeySet(strArr[1]))
              => IsConsistencyError(out)
        /\ (/\ \A r \in 1..Len(strArr) : KeySet(strArr[r]) = KeySet(strArr[1])
            /\ \A r \in 1..Len(strArr) : ~Offending(strArr[r]))
              => ~IsConsistencyError(out)

\* C8: if a cell of a row, looked up by the first row's column names, is
\* absent, falsy or fails validate, table returns exactly "Error: Unable to
\* represent data. Row <k1>,<v1>,<k2>,<v2>,... is not consistent with the
\* rest of the table." with the entries of the first such row in that row's
\* own key order.
C8_OffendingRowIsReported ==
    (TableDone /\ \E r \in 1..Len(strArr) : Offending(strArr[r])) =>
        LET first == SetMin({r \in 1..Len(strArr) : Offending(strArr[r])})
        IN  /\ ~thrown
            /\ out = ConsistencyError(strArr[first])

\* table([{K: "x", Key: 25}, {Key: "", K: "x"}]) is
\* "Error: Unable to represent data. Row Key,,K,x is not consistent ..."
C8_Witness ==
    /\ TableDone
    /\ strArr = <<
          <<[k |-> KeyK, v |-> Str(<<120>>)], [k |-> KeyKey, v |-> Num(25)]>>,
          <<[k |-> KeyKey, v |-> Str(<<>>)], [k |-> KeyK, v |-> Str(<<120>>)]>> >>
    /\ out = ErrorPrefix \o ErrorMessageStart
                \o <<75, 101, 121, 44, 44, 75, 44, 120>> \o ErrorMessageEnd

HasCompositeCell ==
    /\ strArr # <<>>
    /\ \E r \in 1..Len(strArr), h \in 1..Len(Headers) :
          IsComposite(property(strArr[r], Headers[h]))

\* C9 (as claimed): when a cell holds an array or a nested object, table
\* returns the consistency error and does not throw.
C9_CompositeIsError ==
    (TableDone /\ HasCompositeCell) => (~thrown /\ IsConsistencyError(out))

\* C9 (amended): when a cell holds an array or a plain nested object, table
\* does not throw and takes the cell as the value's string conversion: it
\* returns the consistency error when that text is empty or blank, and when
\* no cell of the table is rejected it renders a table that shows that text.
C9_CompositeIsItsText ==
    (TableDone /\ HasCompositeCell) =>
        /\ ~thrown
        /\ (\E r \in 1..Len(strArr), h \in 1..Len(Headers) :
               /\ IsComposite(property(strArr[r], Headers[h]))
               /\ ~validate(Str(toString(property(strArr[r], Headers[h])))))
              => IsConsistencyError(out)
        /\ (\A r \in 1..Len(strArr) : ~Offending(strArr[r]))
              => /\ IsBoxTable(out)
                 /\ \A r \in 1..Len(strArr), h \in 1..Len(Headers) :
                       IsComposite(property(strArr[r], Headers[h]))
                          => Contains(out, toString(property(strArr[r], Headers[h])))

\* table([{K: ["a", "b"]}]) is a table with the cell "a,b"
C9_Witness ==
    /\ TableDone
    /\ strArr = << <<[k |-> KeyK, v |-> Arr(<<Str(<<97>>), Str(<<98>>)>>)]>> >>
    /\ IsBoxTable(out)
    /\ Contains(out, <<9474, 32, 97, 44, 98, 32, 32, 9474>>)

AllScalar ==
    \A r \in 1..Len(strArr) : \A i \in 1..Len(strArr[r]) :
        strArr[r][i].v.t \in {"string", "number"}

\* C10: for rows whose values are strings or numbers table returns a string
\* and never raises: "No data to display." exactly when there is no row, and
\* otherwise a string that starts with "Error: " or a box-drawing table.
C10_AlwaysReturnsAString ==
    (TableDone /\ AllScalar) =>
        /\ ~thrown
        /\ (out = NoDataText) <=> (strArr = <<>>)
        /\ strArr # <<>> => (IsPrefixOf(ErrorPrefix, out) \/ IsBoxTable(out))

\* table([{K: 0}]) returns the error string: the exception is caught
C10_Witness ==
    /\ TableDone
    /\ strArr = << <<[k |-> KeyK, v |-> Num(0)]>> >>
    /\ ~thrown
    /\ IsPrefixOf(ErrorPrefix, out)

---------------------------------------------------------------------------
(* Properties of a rendered table *)

\* the pieces of s between the occurrences of sep
Split(s, sep) ==
    LET at == {i \in 1..Len(s) : s[i] = sep}
        n == Cardinality(at)
        pos(k) == IF k = 0 THEN 0
                  ELSE IF k = n + 1 THEN Len(s) + 1
                  ELSE CHOOSE i \in at : Cardinality({j \in at : j <= i}) = k
    IN  [k \in 1..(n + 1) |-> SubSeq(s, pos(k - 1) + 1, pos(k) - 1)]

\* the lines of the returned string
Lines == Split(out, 10)

Rendered == TableDone /\ strArr # <<>> /\ IsBoxTable(out)

\* a border line: one segment of width + 2 glyphs U+2500 per column, between
\* the left end, the junctions and the right end
IsBorder(line, left, middle, right) ==
    /\ Len(line) >= 2
    /\ line[1] = left
    /\ line[Len(line)] = right
    /\ LET inner == SubSeq(line, 2, Len(line) - 1)
           segments == Split(inner, middle)
       IN  IF Len(Headers) = 0 THEN inner = <<>>
           ELSE /\ Len(segments) = Len(Headers)
                /\ \A h \in 1..Len(Headers) :
                      /\ Len(segments[h]) = columnWidths[h] + 2
                      /\ \A i \in 1..Len(segments[h]) : segments[h][i] = 9472

\* a row line: between the bars U+2502, the given texts padded with spaces
IsRowOf(line, texts) ==
    LET pieces == Split(line, 9474)
    IN  /\ pieces[1] = <<>>
        /\ pieces[Len(pieces)] = <<>>
        /\ IF Len(texts) = 0 THEN Len(pieces) = 3
           ELSE /\ Len(pieces) = Len(texts) + 2
                /\ \A h \in 1..Len(texts) : trim(pieces[h + 1]) = trim(texts[h])

\* C11: a rendered table of n rows has exactly n + 4 lines: the top border,
\* the header row, the separator, one line per row in input order and the
\* bottom border; every border has one segment of columnWidth + 2 glyphs per
\* column; the cells of every row stand in the first row's key order.
C11_Layout ==
    Rendered =>
        LET n == Len(strArr)
        IN  /\ Len(Lines) = n + 4
            /\ IsBorder(Lines[1], 9484, 9516, 9488)
            /\ IsRowOf(Lines[2], Headers)
            /\ IsBorder(Lines[3], 9500, 9532, 9508)
            /\ \A r \in 1..n :
                  IsRowOf(Lines[r + 3],
                          [h \in 1..Len(Headers) |->
                              toString(property(strArr[r], Headers[h]))])
            /\ IsBorder(Lines[n + 4], 9492, 9524, 9496)

\* table([{K: "x", Key: 25}, {Key: 25, K: "\x1b[mx"}]): six lines, the second
\* row with K before Key
C11_Witness ==
    /\ Rendered
    /\ strArr = <<
          <<[k |-> KeyK, v |-> Str(<<120>>)], [k |-> KeyKey, v |-> Num(25)]>>,
          <<[k |-> KeyKey, v |-> Num(25)],
            [k |-> KeyK, v |-> Str(<<27, 91, 109, 120>>)]>> >>
    /\ Len(Lines) = 6
    /\ Lines[5] = <<9474, 32, 27, 91, 109, 120, 32, 32, 9474, 32, 50, 53, 32,
                    32, 9474>>

\* the length of a text after its escape sequences are removed
VisualWidth(s) == Len(stripCliColors(s))

\* C12 (as claimed): all lines of a rendered table with at least one column
\* have the same visual width, whatever escape sequences, accents or inner
\* whitespace the values hold.
C12_LinesHaveOneVisualWidth ==
    (Rendered /\ Len(Headers) > 0) =>
        \A i \in 1..Len(Lines) : VisualWidth(Lines[i]) = VisualWidth(Lines[1])

IsNonBlankString(v) ==
    /\ v.t = "string"
    /\ \E i \in 1..Len(v.s) : ~IsWhiteSpace(v.s[i])

\* C19 (as claimed): a table with at least one row, whose rows all have the
\* first row's key set and whose cells are all numbers or non-blank strings,
\* is rendered as a table and never as an error string.
C19_WellFormedTableRenders ==
    (/\ TableDone
     /\ strArr # <<>>
     /\ \A r \in 1..Len(strArr) : KeySet(strArr[r]) = KeySet(strArr[1])
     /\ \A r \in 1..Len(strArr) : \A i \in 1..Len(strArr[r]) :
           strArr[r][i].v.t = "number" \/ IsNonBlankString(strArr[r][i].v))
        => (IsBoxTable(out) /\ ~IsPrefixOf(ErrorPrefix, out))

---------------------------------------------------------------------------
(* Properties of truncate and isPalindrome *)

\* the cut after n characters of s falls inside a word
CutsAWord(s, n) ==
    /\ 1 <= n /\ n < Len(s)
    /\ s[n] # 32 /\ s[n + 1] # 32

\* C13 (as claimed): for a string longer than length, truncate called with
\* two arguments cuts after exactly length characters and appends "...";
\* called with a third argument true, when that cut falls inside a word that
\* has a space before it, it cuts before that space instead and appends "...".
C13_TruncateModes ==
    (pc = "done" /\ op = "truncate" /\ Len(arg.s) > length) =>
        LET spaces == {i \in 1..length : arg.s[i] = 32}
        IN  /\ ~flag => out = SubSeq(arg.s, 1, length) \o <<46, 46, 46>>
            /\ (flag /\ CutsAWord(arg.s, length) /\ spaces # {}) =>
                   out = SubSeq(arg.s, 1, SetMax(spaces) - 1) \o <<46, 46, 46>>

\* C14 (as claimed): called with the flag true isPalindrome compares
\* normalize(value, strict = true) with its reversal; called with the flag
\* false or without it, it compares the lowercased value without its
\* whitespace, punctuation and accents included.
C14_PalindromeModes ==
    (pc = "done" /\ op = "isPalindrome") =>
        LET strictly == normalize(arg.s, TRUE, FALSE)
            softly == removeWhitespace(toLowerCase(arg.s))
        IN  IF flag THEN ok = (strictly = reverseString(strictly))
            ELSE ok = (softly = reverseString(softly))

---------------------------------------------------------------------------
(* Properties of the normalizeArray functions *)

ArrayDone ==
    /\ pc = "done"
    /\ op \in {"normalizeArray", "softlyNormalizeArray", "strictlyNormalizeArray"}

\* the positions of the entries that pass validate
Passing == {i \in 1..Len(list) : validate(list[i])}

\* the k-th of them, in the input's order
Survivor(k) ==
    list[CHOOSE i \in Passing : Cardinality({j \in Passing : j <= i}) = k].s

\* what the called function's policy makes of one surviving entry
Policy(s) ==
    CASE op = "normalizeArray" -> normalize(s, FALSE, FALSE)
      [] op = "softlyNormalizeArray" ->
            IF flag THEN toLowerCase(trim(s)) ELSE trim(s)
      [] op = "strictlyNormalizeArray" -> normalize(s, TRUE, TRUE)

C18_NoEmptyElement ==
    ArrayDone =>
        \A k \in 1..Len(outList) :
            \E i \in 1..Len(outList[k]) : ~IsWhiteSpace(outList[k][i])

---------------------------------------------------------------------------
(* Properties of normalize with stripCliColors *)

\* C17 (as claimed): with stripCliColors enabled, normalize gives a text the
\* result it gives the same text with its escape sequences removed
\* beforehand, for either value of strict.
C17_EscapesDoNotInfluence ==
    (pc = "done" /\ op = "normalize" /\ stripCli) =>
        out = normalize(stripCliColors(arg.s), strict, TRUE)

---------------------------------------------------------------------------
(* Properties of concurrent reveal calls *)

\* the positions of the standard output written by call p
WritesOf(p) == {k \in 1..Len(stdout) : stdout[k].by = p}

\* what call p wrote, in the order of the standard output
Own(p) ==
    LET mine == SelectSeq(stdout, LAMBDA w : w.by = p)
    IN  [k \in 1..Len(mine) |-> mine[k].c]

\* what call p has written by now when it runs alone
Alone(p) ==
    IF calls[p].st = "done" THEN calls[p].str \o <<10>>
    ELSE SubSeq(calls[p].str, 1, calls[p].i)

\* C16 (as claimed): what each of two concurrent reveal calls writes is what
\* it writes alone, its characters in order and then its line break, and no
\* write of the other call lies between two of its writes.
C16_NoInterleaving ==
    op = "reveal" =>
        \A p \in Callers :
            /\ Own(p) = Alone(p)
            /\ \A k \in 1..Len(stdout) :
                   (WritesOf(p) # {} /\ SetMin(WritesOf(p)) <= k
                      /\ k <= SetMax(WritesOf(p))) => stdout[k].by = p

\* C16 (amended): each of two concurrent reveal calls issues its characters
\* in their original order and then its line break, as when it runs alone;
\* the standard output is shared, so this holds of the call's own writes
\* only, whatever the other call writes in between.
C16_OwnWritesInOrder ==
    op = "reveal" => \A p \in Callers : Own(p) = Alone(p)

\* reveal("ab") and reveal("ba") have both ended and the standard output
\* holds a b b LF a LF: the second call's "b" lies inside the first's text
C16_Witness ==
    /\ pc = "done" /\ op = "reveal"
    /\ calls[1].str = <<97, 98>> /\ calls[2].str = <<98, 97>>
    /\ stdout = <<[by |-> 1, c |-> 97], [by |-> 2, c |-> 98],
                  [by |-> 1, c |-> 98], [by |-> 1, c |-> 10],
                  [by |-> 2, c |-> 97], [by |-> 2, c |-> 10]>>

===========================================================================
